---- MODULE Spec2Model ----
(***************************************************************************)
(* SendspinMpris (src/aiosendspin_mpris/mpris.py): the controller that     *)
(* mirrors a SendspinClient's metadata / playback / controller events into *)
(* an MprisState record and signals an MPRIS server running on a           *)
(* background thread.                                                      *)
(*                                                                         *)
(* Every public method and every client event is one action.  The calls    *)
(* into the two libraries (constructors, Thread.start, add_*_listener,     *)
(* removers, server.quit, the notifier's methods) may raise; which do     *)
(* is an input of the action.  The variable last records what the last     *)
(* operation did (calls made, errors surfaced); the program does not read  *)
(* it.                                                                     *)
(***************************************************************************)
EXTENDS Integers, Sequences, FiniteSets, TLC

\* ------------------------------------------------------------- bounds
MaxRegs == 2      \* registrations of one handler the client may hold
MaxOrphans == 1   \* service threads still alive after their join timed out

\* ------------------------------------------------------------- values
None == -1        \* Python None in an optional string / int field
Undefined == -2   \* aiosendspin's UndefinedField sentinel
MinVolume == 0
MaxVolume == 100

Kinds == <<"metadata", "group_update", "controller_state">>
KindSet == {Kinds[i] : i \in 1..3}
PlaybackStates == {"playing", "paused", "stopped"}
NoPlayback == "none"
Commands == {"play", "pause"}
Volumes == {MinVolume, MaxVolume}
Titles == {None, 1}           \* an optional string: None or "A"
Artists == {None, 2}          \* None or "B"
Albums == {None, 1}
MsVals == {0, 1}              \* a duration or position in ms
OptMs == {None} \cup MsVals

VARIABLES
    available,          \* MPRIS_AVAILABLE
    loop,               \* _loop is set
    state,              \* _state : MprisState
    adapter,            \* _adapter is set
    server,             \* _server is set
    event_adapter,      \* _event_adapter is set
    thread,             \* _thread: "none", "unstarted", "alive", "exited"
    running,            \* _running
    listener_removers,  \* _listener_removers: the kinds, in order
    client_listeners,   \* registrations of this controller's handlers held by the client
    orphans,            \* service threads alive but no longer referenced
    last                \* what the last operation did

vars == <<available, loop, state, adapter, server, event_adapter, thread,
          running, listener_removers, client_listeners, orphans, last>>

ctl == <<loop, state, adapter, server, event_adapter, thread, running,
         listener_removers>>

\* MprisState() as constructed in __init__
EmptyState ==
    [title |-> None, artist |-> None, album |-> None, duration_ms |-> None,
     progress_ms |-> None, playback_state |-> NoPlayback, volume |-> MaxVolume,
     muted |-> FALSE, supported_commands |-> {}]

Idle ==
    [op |-> "init", ret |-> "returned", calls |-> <<>>, notes |-> <<>>,
     removed |-> <<>>, quits |-> 0, joins |-> 0, spawned |-> 0, built |-> 0,
     registered |-> 0, runs |-> 0, args |-> <<>>, pc |-> "done",
     prev |-> <<>>, seen |-> {}]

Init ==
    /\ available \in BOOLEAN
    /\ loop = FALSE
    /\ state = EmptyState
    /\ adapter = FALSE
    /\ server = FALSE
    /\ event_adapter = FALSE
    /\ thread = "none"
    /\ running = FALSE
    /\ listener_removers = <<>>
    /\ client_listeners = [k \in KindSet |-> 0]
    /\ orphans = 0
    /\ last = Idle

\* ------------------------------------------------------- the setters
\* A context c is what a setter or handler reads and writes: the State
\* record and the log of the operation (setter calls made, notification
\* calls attempted).  ea says whether _event_adapter is set, and nf is the
\* set of notifier methods that raise during this operation.

Ctx(st) == [state |-> st, calls |-> <<>>, notes |-> <<>>, runs |-> 0]

Called(c, name) == [c EXCEPT !.calls = Append(@, name)]

\* Mutant of Emit: a failed notification is attempted a second time.
EmitRetry(c, ea, method, nf) ==
    IF ~ea
    THEN c
    ELSE IF method \in nf
         THEN [c EXCEPT !.notes = @ \o <<[method |-> method, raised |-> TRUE],
                                         [method |-> method, raised |-> TRUE]>>]
         ELSE [c EXCEPT !.notes = Append(@, [method |-> method, raised |-> FALSE])]

\* The tail shared by the four notifying setters: return if the notifier is
\* absent, else one call of its method, an exception of which is swallowed.
Emit(c, ea, method, nf) ==
    IF ~ea
    THEN c
    ELSE [c EXCEPT !.notes = Append(@, [method |-> method, raised |-> method \in nf])]

\* Mutant of set_metadata: a new track also resets the position.
set_metadata_resets_progress(c, ea, title, artist, album, duration_ms, nf) ==
    LET c1 == [Called(c, "set_metadata") EXCEPT
                  !.state.title = title,
                  !.state.artist = artist,
                  !.state.album = album,
                  !.state.duration_ms = duration_ms,
                  !.state.progress_ms = None]
    IN Emit(c1, ea, "on_title", nf)

set_metadata(c, ea, title, artist, album, duration_ms, nf) ==
    LET c1 == [Called(c, "set_metadata") EXCEPT
                  !.state.title = title,
                  !.state.artist = artist,
                  !.state.album = album,
                  !.state.duration_ms = duration_ms]
    IN Emit(c1, ea, "on_title", nf)

\* Mutant of set_progress: the position change is pushed like the others.
set_progress_notifying(c, ea, progress_ms, nf) ==
    Emit([Called(c, "set_progress") EXCEPT !.state.progress_ms = progress_ms],
         ea, "on_title", nf)

set_progress(c, ea, progress_ms, nf) ==
    [Called(c, "set_progress") EXCEPT !.state.progress_ms = progress_ms]

set_playback_state(c, ea, st, nf) ==
    Emit([Called(c, "set_playback_state") EXCEPT !.state.playback_state = st],
         ea, "on_playpause", nf)

set_volume(c, ea, volume, muted, nf) ==
    LET c1 == [Called(c, "set_volume") EXCEPT
                  !.state.volume = volume,
                  !.state.muted = muted]
    IN Emit(c1, ea, "on_volume", nf)

set_supported_commands(c, ea, commands, nf) ==
    Emit([Called(c, "set_supported_commands") EXCEPT
             !.state.supported_commands = commands],
         ea, "on_options", nf)

\* ------------------------------------------------------ the handlers
\* A metadata payload p: p.present says payload.metadata is not None;
\* p.title, p.artist, p.album are Undefined, None or a string; p.progress
\* is "undefined", "null" or "value", with p.track_duration and
\* p.track_progress in the last case.

\* Mutant of Pick: an explicit null is treated like an omitted field.
PickNonNull(incoming, previous) ==
    IF incoming # Undefined /\ incoming # None THEN incoming ELSE previous

\* x if not isinstance(x, UndefinedField) else self._state.x
Pick(incoming, previous) ==
    IF incoming # Undefined THEN incoming ELSE previous

\* Mutant of _on_metadata_update: an explicit null progress clears the
\* duration instead of keeping it.
on_metadata_update_null_clears(c, ea, p, nf) ==
    IF ~p.present
    THEN c
    ELSE LET title == Pick(p.title, c.state.title)
             artist == Pick(p.artist, c.state.artist)
             album == Pick(p.album, c.state.album)
             fresh == p.progress = "value"
             duration_ms == IF fresh THEN p.track_duration
                            ELSE IF p.progress = "null" THEN None
                            ELSE c.state.duration_ms
             progress_ms == IF fresh THEN p.track_progress ELSE c.state.progress_ms
             c1 == set_metadata(c, ea, title, artist, album, duration_ms, nf)
         IN IF progress_ms # None
            THEN set_progress(c1, ea, progress_ms, nf)
            ELSE c1

\* Mutant of _on_metadata_update: set_progress is called only when the
\* event carried a progress.
on_metadata_update_fresh_only(c, ea, p, nf) ==
    IF ~p.present
    THEN c
    ELSE LET title == Pick(p.title, c.state.title)
             artist == Pick(p.artist, c.state.artist)
             album == Pick(p.album, c.state.album)
             fresh == p.progress = "value"
             duration_ms == IF fresh THEN p.track_duration ELSE c.state.duration_ms
             c1 == set_metadata(c, ea, title, artist, album, duration_ms, nf)
         IN IF fresh
            THEN set_progress(c1, ea, p.track_progress, nf)
            ELSE c1

_on_metadata_update(c, ea, p, nf) ==
    IF ~p.present
    THEN c
    ELSE LET title == Pick(p.title, c.state.title)
             artist == Pick(p.artist, c.state.artist)
             album == Pick(p.album, c.state.album)
             fresh == p.progress = "value"
             duration_ms == IF fresh THEN p.track_duration ELSE c.state.duration_ms
             progress_ms == IF fresh THEN p.track_progress ELSE c.state.progress_ms
             c1 == set_metadata(c, ea, title, artist, album, duration_ms, nf)
         IN IF progress_ms # None
            THEN set_progress(c1, ea, progress_ms, nf)
            ELSE c1

\* Mutant of _on_group_update: the null check is missing.
on_group_update_unchecked(c, ea, p, nf) ==
    set_playback_state(c, ea, p.playback_state, nf)

\* A group-update payload p: p.playback_state is NoPlayback or a state.
_on_group_update(c, ea, p, nf) ==
    IF p.playback_state # NoPlayback
    THEN set_playback_state(c, ea, p.playback_state, nf)
    ELSE c

\* Mutant of _on_controller_state: the incoming commands are added to the
\* ones State holds.
on_controller_state_merge(c, ea, p, nf) ==
    IF ~p.present
    THEN c
    ELSE set_volume(set_supported_commands(
                        c, ea, c.state.supported_commands \cup p.supported_commands, nf),
                    ea, p.volume, p.muted, nf)

\* A controller payload p: p.present says payload.controller is not None.
_on_controller_state(c, ea, p, nf) ==
    IF ~p.present
    THEN c
    ELSE set_volume(set_supported_commands(c, ea, p.supported_commands, nf),
                    ea, p.volume, p.muted, nf)

Handle(kind, c, ea, p, nf) ==
    LET c1 == [c EXCEPT !.runs = @ + 1]
    IN CASE kind = "metadata" -> _on_metadata_update(c1, ea, p, nf)
         [] kind = "group_update" -> _on_group_update(c1, ea, p, nf)
         [] kind = "controller_state" -> _on_controller_state(c1, ea, p, nf)

\* The client calls the handler once per registration it holds.
RECURSIVE Dispatch(_, _, _, _, _, _)
Dispatch(kind, c, ea, p, nf, n) ==
    IF n = 0
    THEN c
    ELSE Dispatch(kind, Handle(kind, c, ea, p, nf), ea, p, nf, n - 1)

\* -------------------------------------------------------------- start
StartSteps ==
    <<"adapter", "server", "event_adapter", "thread",
      "listener_metadata", "listener_group_update", "listener_controller_state">>
NoFailure == "none"
FailPoints == {StartSteps[i] : i \in 1..Len(StartSteps)} \cup {NoFailure}

\* The position of the step that raises; past the last step if none does.
FailIndex(failAt) ==
    IF failAt = NoFailure
    THEN Len(StartSteps) + 1
    ELSE CHOOSE i \in 1..Len(StartSteps) : StartSteps[i] = failAt

\* Step i of start() ran to completion.
Completed(failAt, i) == FailIndex(failAt) > i

\* Mutant of StartDecision: the already-running check is missing.
StartDecisionNoRunningCheck(inLoop) ==
    IF ~available THEN "unavailable"
    ELSE IF ~inLoop THEN "no_loop"
    ELSE "proceed"

\* Mutant of StartDecision: the scheduler is looked up before the
\* availability check.
StartDecisionLoopFirst(inLoop) ==
    IF ~running /\ ~inLoop THEN "no_loop"
    ELSE IF ~available THEN "unavailable"
    ELSE IF running THEN "already_running"
    ELSE "proceed"

\* The early returns and the raise at the head of start().
StartDecision(inLoop) ==
    IF ~available THEN "unavailable"
    ELSE IF running THEN "already_running"
    ELSE IF ~inLoop THEN "no_loop"
    ELSE "proceed"

\* Mutant of Attached: the controller-state listener is never registered.
AttachedTwo(failAt) ==
    SubSeq(Kinds, 1, IF FailIndex(failAt) <= 5 THEN 0
                     ELSE IF FailIndex(failAt) - 5 > 2 THEN 2
                     ELSE FailIndex(failAt) - 5)

\* The kinds whose listener start() registered before failAt raised.
Attached(failAt) ==
    SubSeq(Kinds, 1, IF FailIndex(failAt) <= 5 THEN 0 ELSE FailIndex(failAt) - 5)

InSeq(sq, x) == \E i \in 1..Len(sq) : sq[i] = x

_attach_client_listeners(failAt) ==
    /\ listener_removers' = listener_removers \o Attached(failAt)
    /\ client_listeners' =
          [k \in KindSet |->
              client_listeners[k] + IF InSeq(Attached(failAt), k) THEN 1 ELSE 0]

start(inLoop, failAt) ==
    LET d == StartDecision(inLoop)
    IN IF d # "proceed"
       THEN /\ failAt = NoFailure
            /\ last' = [Idle EXCEPT !.op = "start", !.args = <<inLoop>>,
                           !.ret = IF d = "no_loop" THEN "no_running_loop"
                                                   ELSE "returned"]
            /\ UNCHANGED <<available, ctl, client_listeners, orphans>>
       ELSE /\ \A k \in KindSet : client_listeners[k] < MaxRegs
            /\ loop' = TRUE
            /\ adapter' = (adapter \/ Completed(failAt, 1))
            /\ server' = (server \/ Completed(failAt, 2))
            /\ event_adapter' = (event_adapter \/ Completed(failAt, 3))
            /\ thread' = IF Completed(failAt, 4) THEN "alive"
                         ELSE IF FailIndex(failAt) = 4 THEN "unstarted"
                         ELSE thread
            /\ running' = Completed(failAt, 4)
            /\ _attach_client_listeners(failAt)
            /\ last' = [Idle EXCEPT
                           !.op = "start", !.args = <<inLoop>>,
                           !.ret = IF failAt = NoFailure THEN "returned" ELSE failAt,
                           !.built = IF FailIndex(failAt) > 3 THEN 3
                                     ELSE FailIndex(failAt) - 1,
                           !.spawned = IF Completed(failAt, 4) THEN 1 ELSE 0,
                           !.registered = Len(Attached(failAt))]
            /\ UNCHANGED <<available, state, orphans>>

\* --------------------------------------------------------------- stop
\* Mutant of RunRemovers: one try around the whole loop, so the first
\* remover that raises ends it.
RunRemoversAbort(removers, rf) ==
    LET stopAt == IF \E i \in 1..Len(removers) : i \in rf
                  THEN CHOOSE i \in 1..Len(removers) :
                          i \in rf /\ \A j \in 1..(i - 1) : j \notin rf
                  ELSE Len(removers)
    IN [i \in 1..stopAt |-> [kind |-> removers[i], raised |-> i \in rf]]

\* The loop over _listener_removers: every remover is called, and one that
\* raises (rf holds its position) is logged and skipped.
RunRemovers(removers, rf) ==
    [i \in 1..Len(removers) |-> [kind |-> removers[i], raised |-> i \in rf]]

\* The registrations the client still holds after the removers in log ran:
\* a remover that raised removed nothing.
AfterRemoval(log) ==
    [k \in KindSet |->
        client_listeners[k]
          - Cardinality({i \in 1..Len(log) : log[i].kind = k /\ ~log[i].raised})]

\* Mutant of StopDecision: the not-running check is missing.
StopDecisionAlways == "proceed"

StopDecision == IF ~running THEN "not_running" ELSE "proceed"

stop(rf, quitFails, joinTimesOut) ==
    IF StopDecision # "proceed"
    THEN /\ rf = {} /\ ~quitFails /\ ~joinTimesOut
         /\ last' = [Idle EXCEPT !.op = "stop"]
         /\ UNCHANGED <<available, ctl, client_listeners, orphans>>
    ELSE LET log == RunRemovers(listener_removers, rf)
         IN /\ rf \subseteq 1..Len(listener_removers)
            /\ quitFails => server
            /\ joinTimesOut => (thread = "alive" /\ orphans < MaxOrphans)
            /\ running' = FALSE
            /\ event_adapter' = FALSE
            /\ client_listeners' = AfterRemoval(log)
            /\ listener_removers' = <<>>
            /\ server' = FALSE
            /\ thread' = "none"
            /\ orphans' = IF joinTimesOut THEN orphans + 1 ELSE orphans
            /\ last' = [Idle EXCEPT
                           !.op = "stop",
                           !.args = <<quitFails, joinTimesOut>>,
                           !.removed = log,
                           !.quits = IF server THEN 1 ELSE 0,
                           !.joins = IF thread # "none" THEN 1 ELSE 0]
            /\ UNCHANGED <<available, loop, state, adapter>>

\* ------------------------------------------------- the service thread
\* run_loop: server.loop() returns or raises, and the thread ends.
run_loop_exit ==
    /\ thread = "alive"
    /\ thread' = "exited"
    /\ last' = [Idle EXCEPT !.op = "run_loop_exit"]
    /\ UNCHANGED <<available, loop, state, adapter, server, event_adapter,
                   running, listener_removers, client_listeners, orphans>>

\* The same for a thread that stop() gave up waiting for.
orphan_exit ==
    /\ orphans > 0
    /\ orphans' = orphans - 1
    /\ last' = [Idle EXCEPT !.op = "orphan_exit"]
    /\ UNCHANGED <<available, ctl, client_listeners>>

\* ------------------------------------------------ stop(), step by step
\* The same stop(), one statement group per step, so that the service
\* thread can run in between.  last.pc is the statement stop() is at,
\* last.prev the remover list it found, last.args whether server.quit()
\* raised and whether the join timed out.

\* Mutant of StopPcAfter: the server is asked to quit before the listeners
\* are removed.
StopPcAfterQuitFirst(pc) ==
    CASE pc = "flag" -> "quit"
      [] pc = "quit" -> "removers"
      [] pc = "removers" -> "join"
      [] pc = "join" -> "done"

\* The order of the statements of stop().
StopPcAfter(pc) ==
    CASE pc = "flag" -> "removers"
      [] pc = "removers" -> "quit"
      [] pc = "quit" -> "join"
      [] pc = "join" -> "done"

\* Mutant of JoinTimeout: join() without a timeout.
JoinTimeoutNone == FALSE

\* join(timeout=1) returns after one second whatever the thread does.
JoinTimeout == TRUE

Quiescent == last.pc = "done"

\* if not self._running: return
stop_not_running ==
    /\ Quiescent
    /\ StopDecision # "proceed"
    /\ last' = [Idle EXCEPT !.op = "stop"]
    /\ UNCHANGED <<available, ctl, client_listeners, orphans>>

\* self._running = False; self._event_adapter = None
stop_flag ==
    /\ Quiescent
    /\ StopDecision = "proceed"
    /\ running' = FALSE
    /\ event_adapter' = FALSE
    /\ last' = [Idle EXCEPT !.op = "stop", !.pc = StopPcAfter("flag"),
                   !.prev = listener_removers, !.args = <<FALSE, FALSE>>]
    /\ UNCHANGED <<available, loop, state, adapter, server, thread,
                   listener_removers, client_listeners, orphans>>

\* One turn of the loop over self._listener_removers.
stop_remover(raises) ==
    LET i == Len(last.removed) + 1
    IN /\ last.pc = "removers"
       /\ i <= Len(listener_removers)
       /\ client_listeners' =
             [client_listeners EXCEPT
                 ![listener_removers[i]] = IF raises THEN @ ELSE @ - 1]
       /\ last' = [last EXCEPT
                      !.removed = Append(@, [kind |-> listener_removers[i],
                                             raised |-> raises])]
       /\ UNCHANGED <<available, ctl, orphans>>

\* The loop is over: self._listener_removers.clear()
stop_clear ==
    /\ last.pc = "removers"
    /\ Len(last.removed) >= Len(listener_removers)
    /\ listener_removers' = <<>>
    /\ last' = [last EXCEPT !.pc = StopPcAfter("removers")]
    /\ UNCHANGED <<available, loop, state, adapter, server, event_adapter,
                   thread, running, client_listeners, orphans>>

\* if self._server is not None: self._server.quit(); self._server = None
stop_quit(quitFails) ==
    /\ last.pc = "quit"
    /\ quitFails => server
    /\ server' = FALSE
    /\ last' = [last EXCEPT !.pc = StopPcAfter("quit"),
                   !.quits = IF server THEN @ + 1 ELSE @,
                   !.args[1] = quitFails]
    /\ UNCHANGED <<available, loop, state, adapter, event_adapter, thread,
                   running, listener_removers, client_listeners, orphans>>

\* if self._thread is not None: self._thread.join(timeout=1);
\* self._thread = None.  The join returns when the thread has ended or the
\* timeout has passed; a thread still alive then is left behind.
stop_join ==
    /\ last.pc = "join"
    /\ thread # "alive" \/ JoinTimeout
    /\ thread' = "none"
    /\ orphans' = IF thread = "alive" THEN orphans + 1 ELSE orphans
    /\ last' = [last EXCEPT !.pc = StopPcAfter("join"),
                   !.joins = IF thread # "none" THEN @ + 1 ELSE @,
                   !.args[2] = (thread = "alive")]
    /\ UNCHANGED <<available, loop, state, adapter, server, event_adapter,
                   running, listener_removers, client_listeners>>

StopSteps ==
    \/ \E raises \in BOOLEAN : stop_remover(raises)
    \/ stop_clear
    \/ \E quitFails \in BOOLEAN : stop_quit(quitFails)
    \/ stop_join

\* The service thread ends while the caller is at any statement.
loop_returns ==
    /\ thread = "alive"
    /\ thread' = "exited"
    /\ UNCHANGED <<available, loop, state, adapter, server, event_adapter,
                   running, listener_removers, client_listeners, orphans, last>>

orphan_returns ==
    /\ orphans > 0
    /\ orphans' = orphans - 1
    /\ UNCHANGED <<available, ctl, client_listeners, last>>

\* ---------------------------------------- set_metadata(), step by step
\* The same set_metadata(), one field assignment per step, with the service
\* thread reading State in between.  last.pc is the field assigned next,
\* last.prev the State the call found, last.args the values it was given,
\* last.seen the <<field, value>> pairs the service thread read meanwhile.

\* The order of the statements of set_metadata().
MetaPcAfter(pc) ==
    CASE pc = "title" -> "artist"
      [] pc = "artist" -> "album"
      [] pc = "album" -> "duration_ms"
      [] pc = "duration_ms" -> "notify"
      [] pc = "notify" -> "done"

MetaFields == {"title", "artist", "album", "duration_ms"}

\* Mutant of MetaValue: the title is assigned from the artist argument.
MetaValueArtistAsTitle(field, args) ==
    CASE field = "title" -> args[2]
      [] field = "artist" -> args[2]
      [] field = "album" -> args[3]
      [] field = "duration_ms" -> args[4]

\* The argument each field is assigned from.
MetaValue(field, args) ==
    CASE field = "title" -> args[1]
      [] field = "artist" -> args[2]
      [] field = "album" -> args[3]
      [] field = "duration_ms" -> args[4]

\* The call is entered with its four arguments.
set_metadata_enter(title, artist, album, duration_ms) ==
    /\ Quiescent
    /\ last' = [Idle EXCEPT !.op = "set_metadata", !.pc = "title",
                   !.args = <<title, artist, album, duration_ms>>,
                   !.calls = <<"set_metadata">>, !.prev = state]
    /\ UNCHANGED <<available, ctl, client_listeners, orphans>>

\* self._state.<field> = <argument>
set_metadata_assign ==
    /\ last.op = "set_metadata"
    /\ last.pc \in MetaFields
    /\ state' = [state EXCEPT ![last.pc] = MetaValue(last.pc, last.args)]
    /\ last' = [last EXCEPT !.pc = MetaPcAfter(last.pc)]
    /\ UNCHANGED <<available, loop, adapter, server, event_adapter, thread,
                   running, listener_removers, client_listeners, orphans>>

\* The tail of the call: return without the notifier, else on_title().
set_metadata_notify(nf) ==
    /\ last.op = "set_metadata"
    /\ last.pc = "notify"
    /\ last' = [last EXCEPT !.pc = MetaPcAfter("notify"),
                   !.notes = Emit(Ctx(state), event_adapter, "on_title", nf).notes]
    /\ UNCHANGED <<available, ctl, client_listeners, orphans>>

\* The service thread reads one field of State while the call is under way.
service_read(field) ==
    /\ thread = "alive" \/ orphans > 0
    /\ last.op = "set_metadata"
    /\ ~Quiescent
    /\ \A v \in {None, 1, 2} : <<field, v>> \notin last.seen
    /\ last' = [last EXCEPT !.seen = @ \cup {<<field, state[field]>>}]
    /\ UNCHANGED <<available, ctl, client_listeners, orphans>>

\* ------------------------------------------- calls of the public setters
\* The call leaves c as its result: the State is replaced and the log kept.
Finish(name, args, c) ==
    /\ state' = c.state
    /\ last' = [Idle EXCEPT !.op = name, !.args = args, !.calls = c.calls,
                   !.notes = c.notes, !.runs = c.runs]
    /\ UNCHANGED <<available, loop, adapter, server, event_adapter, thread,
                   running, listener_removers, client_listeners, orphans>>

call_set_metadata(title, artist, album, duration_ms, nf) ==
    Finish("set_metadata", <<title, artist, album, duration_ms>>,
           set_metadata(Ctx(state), event_adapter, title, artist, album,
                        duration_ms, nf))

call_set_progress(progress_ms, nf) ==
    Finish("set_progress", <<progress_ms>>,
           set_progress(Ctx(state), event_adapter, progress_ms, nf))

call_set_playback_state(st, nf) ==
    Finish("set_playback_state", <<st>>,
           set_playback_state(Ctx(state), event_adapter, st, nf))

call_set_volume(volume, muted, nf) ==
    Finish("set_volume", <<volume, muted>>,
           set_volume(Ctx(state), event_adapter, volume, muted, nf))

call_set_supported_commands(commands, nf) ==
    Finish("set_supported_commands", <<commands>>,
           set_supported_commands(Ctx(state), event_adapter, commands, nf))

\* ------------------------------------------------------ client events
\* The client delivers an event of a kind to the handlers registered for it.
client_event(kind, p, nf) ==
    /\ client_listeners[kind] > 0
    /\ Finish(kind, p,
              Dispatch(kind, Ctx(state), event_adapter, p, nf,
                       client_listeners[kind]))

\* ------------------------------------------------------------ inputs
NoMetadata ==
    [present |-> FALSE, title |-> Undefined, artist |-> Undefined,
     album |-> Undefined, progress |-> "undefined", track_duration |-> 0,
     track_progress |-> 0]

\* Metadata payloads whose title, artist, album range over T, A, B.
MetadataPayloads(T, A, B, Ms) ==
    {NoMetadata}
    \cup [present : {TRUE}, title : T, artist : A, album : B,
          progress : {"undefined", "null"}, track_duration : {0},
          track_progress : {0}]
    \cup [present : {TRUE}, title : T, artist : A, album : B,
          progress : {"value"}, track_duration : Ms, track_progress : Ms]

GroupPayloads(S) == [playback_state : S \cup {NoPlayback}]

NoController ==
    [present |-> FALSE, supported_commands |-> {}, volume |-> MinVolume,
     muted |-> FALSE]

ControllerPayloads(C, V, M) ==
    {NoController}
    \cup [present : {TRUE}, supported_commands : C, volume : V, muted : M]

\* What an event may carry for a field that holds a value of S.
Incoming(S) == S \cup {Undefined}

\* ------------------------------------------------- the specifications
\* Spec: the whole lifecycle, every library call free to raise, with the
\* setters and events over a small part of the value domain.
LifecycleNext ==
    \/ \E inLoop \in BOOLEAN, failAt \in FailPoints : start(inLoop, failAt)
    \/ \E rf \in SUBSET (1..3), quitFails \in BOOLEAN, joinTimesOut \in BOOLEAN :
          stop(rf, quitFails, joinTimesOut)
    \/ run_loop_exit
    \/ orphan_exit

\* The notifier methods that may raise: none when there is no notifier.
Failing(methods) == IF event_adapter THEN SUBSET methods ELSE {{}}

Next ==
    \/ LifecycleNext
    \/ \E t \in {None, 1}, nf \in Failing({"on_title"}) :
          call_set_metadata(t, None, None, None, nf)
    \/ call_set_progress(None, {})
    \/ \E nf \in Failing({"on_playpause"}) : call_set_playback_state("playing", nf)
    \/ \E nf \in Failing({"on_volume"}) : call_set_volume(MinVolume, TRUE, nf)
    \/ \E nf \in Failing({"on_options"}) : call_set_supported_commands({}, nf)
    \/ \E p \in MetadataPayloads({Undefined, 1}, {Undefined}, {Undefined}, {}),
          nf \in Failing({"on_title"}) :
          client_event("metadata", p, nf)
    \/ \E p \in GroupPayloads({"playing"}), nf \in Failing({"on_playpause"}) :
          client_event("group_update", p, nf)
    \/ \E p \in ControllerPayloads({{}}, {MaxVolume}, {FALSE}),
          nf \in Failing({"on_options", "on_volume"}) :
          client_event("controller_state", p, nf)

Spec == Init /\ [][Next]_vars

\* SpecMeta: the metadata and playback path over its whole value domain,
\* under a controller that starts and stops without a library call raising
\* and a notifier that does not raise.
InitData == Init /\ available

CleanLifecycle ==
    \/ \E inLoop \in BOOLEAN : start(inLoop, NoFailure)
    \/ stop({}, FALSE, FALSE)

NextMeta ==
    \/ CleanLifecycle
    \/ \E t \in Titles, a \in Artists, b \in Albums, d \in OptMs :
          call_set_metadata(t, a, b, d, {})
    \/ \E pr \in OptMs : call_set_progress(pr, {})
    \/ \E st \in PlaybackStates : call_set_playback_state(st, {})
    \/ \E p \in MetadataPayloads(Incoming(Titles), Incoming(Artists),
                                   Incoming(Albums), MsVals) :
          client_event("metadata", p, {})
    \/ \E p \in GroupPayloads(PlaybackStates) : client_event("group_update", p, {})

SpecMeta == InitData /\ [][NextMeta]_vars

\* SpecCtl: the controller-state path over its whole value domain, under a
\* controller that starts and stops without a library call raising.
NextCtl ==
    \/ CleanLifecycle
    \/ \E v \in Volumes, m \in BOOLEAN, nf \in Failing({"on_volume"}) :
          call_set_volume(v, m, nf)
    \/ \E cs \in SUBSET Commands, nf \in Failing({"on_options"}) :
          call_set_supported_commands(cs, nf)
    \/ call_set_playback_state("playing", {})
    \/ \E p \in ControllerPayloads(SUBSET Commands, Volumes, BOOLEAN),
          nf \in Failing({"on_options", "on_volume"}) :
          client_event("controller_state", p, nf)

SpecCtl == InitData /\ [][NextCtl]_vars

\* SpecSetters: the five setters, each over two values of its fields, under
\* a controller whose start() may fail at any step and whose server.quit()
\* may raise.
NextSetters ==
    \/ \E inLoop \in BOOLEAN, failAt \in FailPoints : start(inLoop, failAt)
    \/ \E quitFails \in BOOLEAN : stop({}, quitFails, FALSE)
    \/ \E t \in Titles, nf \in Failing({"on_title"}) :
          call_set_metadata(t, None, None, None, nf)
    \/ \E pr \in {None, 0} : call_set_progress(pr, {})
    \/ \E st \in {"playing", "paused"}, nf \in Failing({"on_playpause"}) :
          call_set_playback_state(st, nf)
    \/ \E v \in Volumes, nf \in Failing({"on_volume"}) :
          call_set_volume(v, v = MinVolume, nf)
    \/ \E cs \in {{}, {"play"}}, nf \in Failing({"on_options"}) :
          call_set_supported_commands(cs, nf)

SpecSetters == InitData /\ [][NextSetters]_vars


\* SpecLife: the lifecycle when no step of start() raises; removers,
\* server.quit() and the join may still fail.
NextLife ==
    \/ \E inLoop \in BOOLEAN : start(inLoop, NoFailure)
    \/ \E rf \in SUBSET (1..3), quitFails \in BOOLEAN, joinTimesOut \in BOOLEAN :
          stop(rf, quitFails, joinTimesOut)
    \/ run_loop_exit
    \/ orphan_exit

SpecLife == Init /\ [][NextLife]_vars

\* SpecStop: the lifecycle with stop() taken statement by statement and
\* the service thread free to end at any point.  The caller's thread keeps
\* running, so a stop() under way takes its next step.
NextStop ==
    \/ \E inLoop \in BOOLEAN, failAt \in FailPoints :
          /\ Quiescent
          /\ orphans < MaxOrphans
          /\ start(inLoop, failAt)
    \/ stop_not_running
    \/ stop_flag
    \/ StopSteps
    \/ loop_returns
    \/ orphan_returns

SpecStop == Init /\ [][NextStop]_vars /\ WF_vars(StopSteps)

\* SpecRace: set_metadata() taken assignment by assignment on the caller's
\* thread while the service thread reads State, under a controller that
\* starts and stops without a library call raising.
NextRace ==
    \/ Quiescent /\ CleanLifecycle
    \/ \E t \in Titles, a \in Artists : set_metadata_enter(t, a, None, None)
    \/ set_metadata_assign
    \/ \E nf \in Failing({"on_title"}) : set_metadata_notify(nf)
    \/ \E field \in MetaFields : service_read(field)

SpecRace == Init /\ [][NextRace]_vars

\* ============================================================ claims
NotifyingSetters ==
    {"set_metadata", "set_playback_state", "set_volume", "set_supported_commands"}
SetterOps == NotifyingSetters \cup {"set_progress"}

MethodOf(op) ==
    CASE op = "set_metadata" -> "on_title"
      [] op = "set_playback_state" -> "on_playpause"
      [] op = "set_volume" -> "on_volume"
      [] op = "set_supported_commands" -> "on_options"

\* C1: start() on a running controller is a no-op: it returns normally,
\* spawns no thread, constructs nothing, registers no listener, and leaves
\* every field of the controller (running, the remover list of the first
\* start included) and the client's registrations as they were.
C1_StartTwiceIsNoOp ==
    [][(running /\ last'.op = "start") =>
          /\ last'.ret = "returned"
          /\ last'.spawned = 0 /\ last'.built = 0 /\ last'.registered = 0
          /\ running'
          /\ listener_removers' = listener_removers
          /\ UNCHANGED <<ctl, client_listeners, orphans>>]_vars

\* A second start() has returned on a controller whose first start()
\* registered its three listeners.
C1_Witness ==
    /\ last.op = "start" /\ last.ret = "returned" /\ last.spawned = 0
    /\ running /\ listener_removers = Kinds

\* C2: with the library unavailable start() returns without raising, with
\* or without an active scheduler, and leaves the controller untouched:
\* running false, no thread, no server, no notifier, no listener.
C2_UnavailableStartIsNoOp ==
    [][(~available /\ last'.op = "start") =>
          /\ last'.ret = "returned"
          /\ last'.spawned = 0 /\ last'.built = 0 /\ last'.registered = 0
          /\ ~running' /\ ~server' /\ ~event_adapter' /\ thread' = "none"
          /\ listener_removers' = <<>>
          /\ \A k \in KindSet : client_listeners'[k] = 0
          /\ UNCHANGED <<ctl, client_listeners, orphans>>]_vars

\* start() was called outside a scheduler with the library unavailable.
C2_Witness ==
    /\ ~available /\ last.op = "start" /\ last.args = <<FALSE>>
    /\ last.ret = "returned" /\ ~running

\* C3: stop() on a controller that is not running calls no remover, does
\* not quit the server, joins no thread and changes no field; and since
\* every stop() leaves the controller not running, a stop() after a stop()
\* changes nothing.
C3_StopWhenNotRunningIsNoOp ==
    [][(last'.op = "stop") =>
          /\ ~running'
          /\ ~running =>
                /\ last'.removed = <<>> /\ last'.quits = 0 /\ last'.joins = 0
                /\ last'.ret = "returned"
                /\ UNCHANGED <<ctl, client_listeners, orphans>>]_vars

\* stop() was called on a controller that had been started and was no
\* longer running.
C3_Witness ==
    /\ last.op = "stop" /\ last.quits = 0 /\ last.joins = 0
    /\ adapter /\ ~running

\* C4: start() outside an active scheduler, library available and
\* controller not running, raises and leaves the controller not started;
\* and no other error is ever surfaced by start(), stop() or a setter.
C4_OnlyMisuseSurfaces ==
    [][/\ (available /\ ~running /\ last'.op = "start" /\ last'.args = <<FALSE>>) =>
             /\ last'.ret = "no_running_loop"
             /\ last'.spawned = 0 /\ last'.built = 0 /\ last'.registered = 0
             /\ UNCHANGED <<ctl, client_listeners, orphans>>
       /\ last'.ret \in {"returned", "no_running_loop"}]_vars

\* C5: with a notifier present each notifying setter attempts exactly one
\* notification, of its own kind, and set_progress attempts none.
C5_OneNotificationPerSetter ==
    /\ (last.op \in NotifyingSetters /\ event_adapter) =>
          /\ Len(last.notes) = 1
          /\ last.notes[1].method = MethodOf(last.op)
    /\ last.op = "set_progress" => last.notes = <<>>

\* set_progress has been called while a notifier was present.
C5_Witness ==
    /\ last.op = "set_progress" /\ event_adapter /\ last.calls = <<"set_progress">>

\* The State fields a setter writes hold the arguments it was called with.
Wrote(op, args, st) ==
    CASE op = "set_metadata" ->
            /\ st.title = args[1] /\ st.artist = args[2]
            /\ st.album = args[3] /\ st.duration_ms = args[4]
      [] op = "set_playback_state" -> st.playback_state = args[1]
      [] op = "set_volume" -> st.volume = args[1] /\ st.muted = args[2]
      [] op = "set_supported_commands" -> st.supported_commands = args[1]
      [] op = "set_progress" -> st.progress_ms = args[1]

\* C6: when the notification call raises inside a setter, the setter still
\* returns normally, State holds the value passed to it, and the call was
\* attempted once only.
C6_NotifierFailureIsSwallowed ==
    (last.op \in NotifyingSetters /\ last.notes # <<>> /\ last.notes[1].raised) =>
        /\ last.ret = "returned"
        /\ Wrote(last.op, last.args, state)
        /\ Len(last.notes) = 1

\* set_volume(0, muted=True) has returned after on_volume raised.
C6_Witness ==
    /\ last.op = "set_volume" /\ last.notes # <<>> /\ last.notes[1].raised
    /\ state.volume = MinVolume /\ state.muted

\* C7: stop() on a running controller calls every registered remover once,
\* in order, and ends with the remover list empty, the server reference
\* cleared, the thread joined and dropped, running false and no error
\* raised, whichever removers raise and whether or not server.quit() does.
C7_StopAlwaysTearsDown ==
    [][(running /\ last'.op = "stop") =>
          /\ Len(last'.removed) = Len(listener_removers)
          /\ \A i \in 1..Len(listener_removers) :
                last'.removed[i].kind = listener_removers[i]
          /\ listener_removers' = <<>>
          /\ last'.quits = (IF server THEN 1 ELSE 0)
          /\ ~server'
          /\ last'.joins = (IF thread # "none" THEN 1 ELSE 0)
          /\ thread' = "none"
          /\ ~running'
          /\ last'.ret = "returned"]_vars

\* stop() has returned after the second of three removers and
\* server.quit() raised.
C7_Witness ==
    /\ last.op = "stop" /\ Len(last.removed) = 3
    /\ last.removed[2].raised /\ ~last.removed[3].raised
    /\ last.args[1]
    /\ listener_removers = <<>> /\ ~server /\ thread = "none" /\ ~running

\* The value a metadata event leaves in one of title / artist / album.
TriState(incoming, previous) ==
    IF incoming = Undefined THEN previous ELSE incoming

\* C8: a metadata event with a non-null metadata object treats title,
\* artist and album independently: an undefined field keeps the State
\* value, any other incoming value (null included) replaces it.
C8_MetadataTriState ==
    [][(last'.op = "metadata" /\ last'.args.present) =>
          /\ state'.title = TriState(last'.args.title, state.title)
          /\ state'.artist = TriState(last'.args.artist, state.artist)
          /\ state'.album = TriState(last'.args.album, state.album)]_vars

\* After title "A" was set, an event with title undefined and artist "B"
\* has left title "A" and artist "B".
C8_Witness ==
    /\ last.op = "metadata" /\ last.args.present
    /\ last.args.title = Undefined /\ last.args.artist = 2
    /\ state.title = 1 /\ state.artist = 2

\* C9: a group-update event with playback_state null calls no setter,
\* emits no notification and leaves State unchanged; one with a non-null
\* playback_state sets State.playback_state to it and nothing else.
C9_GroupUpdate ==
    [][(last'.op = "group_update") =>
          IF last'.args.playback_state = NoPlayback
          THEN /\ last'.calls = <<>> /\ last'.notes = <<>>
               /\ state' = state
          ELSE state' = [state EXCEPT
                            !.playback_state = last'.args.playback_state]]_vars

\* A null group update has been delivered to a running controller whose
\* State held a playback state, and it still does.
C9_Witness ==
    /\ last.op = "group_update" /\ last.args.playback_state = NoPlayback
    /\ event_adapter /\ state.playback_state = "paused"

\* C10: while the controller is not running, no setter call and no client
\* event delivered to a handler attempts a notification.
C10_NoNotificationWhenNotRunning ==
    (~running /\ last.op \in SetterOps \cup KindSet) => last.notes = <<>>

\* C13: a metadata event takes duration_ms and progress_ms from its
\* progress sub-field when that is present and non-null; when it is
\* undefined or null (or the event has no metadata) both keep the values
\* they had before the event.
C13_DurationProgressFromEvent ==
    [][(last'.op = "metadata") =>
          IF last'.args.present /\ last'.args.progress = "value"
          THEN /\ state'.duration_ms = last'.args.track_duration
               /\ state'.progress_ms = last'.args.track_progress
          ELSE /\ state'.duration_ms = state.duration_ms
               /\ state'.progress_ms = state.progress_ms]_vars

\* An event with an explicit null progress has been handled and State
\* still holds the duration and position it had.
C13_Witness ==
    /\ last.op = "metadata" /\ last.args.present /\ last.args.progress = "null"
    /\ state.duration_ms = 1 /\ state.progress_ms = 1

\* C14 as stated: a metadata event calls set_metadata once, first, and
\* set_progress afterwards exactly when its progress sub-field is present
\* and non-null.
C14_ProgressSetterOnlyWhenUpdated ==
    [][(last'.op = "metadata" /\ last'.args.present) =>
          last'.calls = IF last'.args.progress = "value"
                        THEN <<"set_metadata", "set_progress">>
                        ELSE <<"set_metadata">>]_vars

\* C14 amended: a metadata event calls set_metadata once, first, and
\* set_progress afterwards exactly when the resulting position is not
\* null: the event's position if it carried one, else the one State held.
C14_ProgressSetterWhenNonNull ==
    [][(last'.op = "metadata" /\ last'.args.present) =>
          last'.calls = IF \/ last'.args.progress = "value"
                           \/ state.progress_ms # None
                        THEN <<"set_metadata", "set_progress">>
                        ELSE <<"set_metadata">>]_vars

\* An event without a progress sub-field has called set_progress, with the
\* position State already held.
C14_Witness ==
    /\ last.op = "metadata" /\ last.args.present
    /\ last.args.progress = "undefined"
    /\ last.calls = <<"set_metadata", "set_progress">>
    /\ state.progress_ms = 1

\* C15: a controller-state event without a controller object calls no
\* setter and leaves State unchanged; with one, supported_commands becomes
\* the incoming set, volume and muted the incoming values, nothing else
\* changes, and with a notifier present one on_options call is followed by
\* one on_volume call.
C15_ControllerState ==
    [][(last'.op = "controller_state") =>
          IF ~last'.args.present
          THEN /\ last'.calls = <<>> /\ last'.notes = <<>>
               /\ state' = state
          ELSE /\ state' = [state EXCEPT
                               !.supported_commands = last'.args.supported_commands,
                               !.volume = last'.args.volume,
                               !.muted = last'.args.muted]
               /\ last'.calls = <<"set_supported_commands", "set_volume">>
               /\ event_adapter =>
                     /\ Len(last'.notes) = 2
                     /\ last'.notes[1].method = "on_options"
                     /\ last'.notes[2].method = "on_volume"]_vars

\* An event carrying the commands {pause} has been handled with a notifier
\* whose on_options raised, and on_volume was still called.
C15_Witness ==
    /\ last.op = "controller_state" /\ last.args.present
    /\ last.args.supported_commands = {"pause"}
    /\ state.supported_commands = {"pause"}
    /\ Len(last.notes) = 2 /\ last.notes[1].raised

\* C16: State is empty at construction, start() and stop() never change
\* it, and each setter changes its own fields only.
C16_OnlySettersWriteState ==
    /\ state = EmptyState
    /\ [][/\ last'.op \in {"start", "stop"} => state' = state
          /\ last'.op = "set_metadata" =>
                state' = [state EXCEPT !.title = last'.args[1],
                                       !.artist = last'.args[2],
                                       !.album = last'.args[3],
                                       !.duration_ms = last'.args[4]]
          /\ last'.op = "set_progress" =>
                state' = [state EXCEPT !.progress_ms = last'.args[1]]
          /\ last'.op = "set_playback_state" =>
                state' = [state EXCEPT !.playback_state = last'.args[1]]
          /\ last'.op = "set_volume" =>
                state' = [state EXCEPT !.volume = last'.args[1],
                                       !.muted = last'.args[2]]
          /\ last'.op = "set_supported_commands" =>
                state' = [state EXCEPT !.supported_commands = last'.args[1]]]_vars

\* set_metadata has been called on a State every other field of which had
\* been set, and they are as they were.
C16_Witness ==
    /\ last.op = "set_metadata" /\ state.title = 1
    /\ state.progress_ms = 0 /\ state.playback_state = "paused"
    /\ state.volume = MinVolume /\ state.muted
    /\ state.supported_commands = {"play"}

\* C18: between calls, and when no step of start() raised, the controller
\* is running exactly when the notifier, the server and the thread
\* reference are all set and the remover list holds the three listeners,
\* one per kind; when it is not running all three are unset and the list
\* is empty.
C18_LifecycleConsistent ==
    /\ running =>
          /\ event_adapter /\ server /\ thread # "none"
          /\ listener_removers = Kinds
    /\ ~running =>
          /\ ~event_adapter /\ ~server /\ thread = "none"
          /\ listener_removers = <<>>

\* The controller runs again after a stop() in which the metadata remover
\* raised.
C18_Witness ==
    /\ running /\ last.op = "start" /\ last.spawned = 1
    /\ client_listeners["metadata"] = 2

\* The service-loop threads of this controller that are alive.
AliveThreads == (IF thread = "alive" THEN 1 ELSE 0) + orphans

\* C19: at most one service-loop thread spawned by the controller is alive
\* at any time.
C19_AtMostOneThreadAlive == AliveThreads <= 1

\* C20: the client holds at most one registration of the controller's
\* handler per kind, so an event runs its handler once and causes at most
\* one notification of a kind.
C20_AtMostOneRegistration ==
    /\ \A k \in KindSet : client_listeners[k] <= 1
    /\ last.op \in KindSet =>
          /\ last.runs <= 1
          /\ \A i, j \in 1..Len(last.notes) :
                last.notes[i].method = last.notes[j].method => i = j

\* C11: within one stop() the running flag is cleared before any remover
\* is called, every registered remover has been called before the server
\* is asked to quit, and the server has been asked to quit before the
\* thread is joined.
C11_TeardownOrder ==
    [][(last'.op = "stop") =>
          /\ Len(last'.removed) > Len(last.removed) =>
                /\ ~running /\ last.quits = 0 /\ last.joins = 0
          /\ last'.quits > last.quits =>
                /\ ~running /\ last.joins = 0
                /\ Len(last.removed) = Len(last.prev)
          /\ last'.joins > last.joins =>
                /\ ~running /\ ~server /\ last.quits = 1
                /\ Len(last.removed) = Len(last.prev)
          /\ (last.pc # "done" /\ last'.pc = "done") => last'.joins = 1]_vars

\* stop() has returned after calling three removers, asking the server to
\* quit and joining the thread.
C11_Witness ==
    /\ last.op = "stop" /\ last.pc = "done"
    /\ Len(last.removed) = 3 /\ last.quits = 1 /\ last.joins = 1

\* C12: a stop() under way always returns, with running false and the
\* thread reference dropped, whether or not the service loop ever returns.
C12_StopTerminates ==
    (last.pc # "done") ~>
        (last.op = "stop" /\ last.pc = "done" /\ ~running /\ thread = "none")

\* stop() has returned although server.quit() raised and the service
\* thread was still alive when the join gave up.
C12_Witness ==
    /\ last.op = "stop" /\ last.pc = "done" /\ last.args = <<TRUE, TRUE>>
    /\ ~running /\ thread = "none" /\ orphans = 1

\* C17: whatever the service thread reads from State during one
\* set_metadata() call, each field it reads holds either the value the call
\* found or the value the call was given; the fields read together may be
\* a mix of the two (C17_Witness).
C17_FieldReadsOldOrNew ==
    last.op = "set_metadata" =>
        \A r \in last.seen :
            /\ r[1] = "title" => r[2] \in {last.prev.title, last.args[1]}
            /\ r[1] = "artist" => r[2] \in {last.prev.artist, last.args[2]}
            /\ r[1] = "album" => r[2] \in {last.prev.album, last.args[3]}
            /\ r[1] = "duration_ms" =>
                  r[2] \in {last.prev.duration_ms, last.args[4]}

\* During one call the service thread has read the new title and the
\* previous artist, each different from its counterpart.
C17_Witness ==
    /\ last.op = "set_metadata"
    /\ last.args[1] # last.prev.title
    /\ last.args[2] # last.prev.artist
    /\ <<"title", last.args[1]>> \in last.seen
    /\ <<"artist", last.prev.artist>> \in last.seen

====
